---- MODULE Spec2Model ----
(***************************************************************************)
(* cargo-credential-bitwarden: the credential process that stores Cargo    *)
(* registry tokens in a Bitwarden vault through the `bw` command line.     *)
(*                                                                         *)
(* The model follows src/src/main.rs.  One `perform` call is one process   *)
(* of the credential provider; the vault behind `bw` is shared by all of   *)
(* them.  Every `bw` process the code spawns is recorded, in order, in the *)
(* trace of the process that spawned it.                                   *)
(***************************************************************************)
EXTENDS Integers, Sequences, FiniteSets, TLC

\* ------------------------------------------------------------- bounds

\* The most items the vault holds; `create item` fails on a full vault.
MaxItems == 2

\* ------------------------------------------------------ Rust's Option

None == <<>>

Some(x) == <<x>>

\* ------------------------------------------------------ input domains

\* Registry index URLs handed to perform: one with a host, one that parses
\* but has no host, one that does not parse.
UrlHttps == "https://example.com/index"

UrlFile == "file:///srv/registry"

UrlBad == "not a url"

IndexUrls == {UrlHttps, UrlFile, UrlBad}

\* A URI of the same host as UrlHttps that is no registry's index URL.
UrlOther == "https://example.com/other"

\* Strings that are formatted into longer ones are sequences of fragments.
RegistryName == <<"my-registry">>

\* The registries perform is called for: the index URL and, when the
\* registry is configured by name, its name.
Registries ==
    { [index_url |-> UrlHttps, name |-> None],
      [index_url |-> UrlHttps, name |-> Some(RegistryName)],
      [index_url |-> UrlFile, name |-> None],
      [index_url |-> UrlBad, name |-> None] }

Tokens == {"tok-123", "tok-456"}

Actions == {"Get", "Login", "Logout", "Other"}

Email == "me@example.com"

\* The command lines the credential process is configured with.
ArgLists ==
    { <<>>, <<"--sync">>, <<"--email", Email>>, <<"--email", Email, "--sync">>,
      <<"--email">>, <<"--bogus">>, <<"extra">> }

\* ------------------------------------------------------------- JSON
\* Scalars are tagged, objects are records, arrays are sequences.

JNull == <<"null">>

JStr(s) == <<"str", s>>

JNum(n) == <<"num", n>>

IsJStr(j) == Len(j) = 2 /\ j[1] = "str"

IsJNum(j) == Len(j) = 2 /\ j[1] = "num"

IsJOptStr(j) == j = JNull \/ IsJStr(j)

IsJOptNum(j) == j = JNull \/ IsJNum(j)

\* serde: Option<T> is null or the value.
OptToJson(o, J(_)) == IF o = None THEN JNull ELSE J(o[1])

OptFromJson(j) == IF j = JNull THEN None ELSE Some(j[2])

\* #[derive(Serialize)] of Uri, LoginItem, ListItem, ListItemCreateRequest.
UriToJson(u) == [match |-> OptToJson(u.match, JNum), uri |-> JStr(u.uri)]

LoginToJson(l) ==
    [ username |-> OptToJson(l.username, JStr),
      password |-> JStr(l.password),
      uris |-> [i \in 1..Len(l.uris) |-> UriToJson(l.uris[i])] ]

ListItemToJson(it) ==
    [ id |-> JStr(it.id), type |-> JNum(it.type), name |-> JStr(it.name),
      login |-> LoginToJson(it.login) ]

CreateRequestToJson(r) ==
    [ name |-> JStr(r.name), login |-> LoginToJson(r.login), type |-> JNum(r.type) ]

\* #[derive(Deserialize)]: every field must be there with its type; fields
\* the struct does not name are ignored.
UriParses(j) ==
    /\ {"match", "uri"} \subseteq DOMAIN j
    /\ IsJOptNum(j.match)
    /\ IsJStr(j.uri)

LoginParses(j) ==
    /\ {"username", "password", "uris"} \subseteq DOMAIN j
    /\ IsJOptStr(j.username)
    /\ IsJStr(j.password)
    /\ \A i \in 1..Len(j.uris) : UriParses(j.uris[i])

ListItemParses(j) ==
    /\ {"id", "type", "name", "login"} \subseteq DOMAIN j
    /\ IsJStr(j.id)
    /\ IsJNum(j.type)
    /\ IsJStr(j.name)
    /\ LoginParses(j.login)

UriFromJson(j) == [match |-> OptFromJson(j.match), uri |-> j.uri[2]]

LoginFromJson(j) ==
    [ username |-> OptFromJson(j.username),
      password |-> j.password[2],
      uris |-> [i \in 1..Len(j.uris) |-> UriFromJson(j.uris[i])] ]

ListItemFromJson(j) ==
    [ id |-> j.id[2], type |-> j.type[2], name |-> j.name[2],
      login |-> LoginFromJson(j.login) ]

\* serde_json::from_str::<Vec<ListItem>>(&buffer): Some(items) or None when
\* the text is no array of items.
ParseListOutput(stdout) ==
    IF stdout.kind = "json" /\ \A i \in 1..Len(stdout.val) : ListItemParses(stdout.val[i])
    THEN Some([i \in 1..Len(stdout.val) |-> ListItemFromJson(stdout.val[i])])
    ELSE None

\* ------------------------------------------------- results of a call

Ok(x) == [tag |-> "Ok", val |-> x]

Err(msg) == [tag |-> "Err", val |-> msg]

\* panic!/unwrap on None: the process aborts, no Error reaches the caller.
Panic(msg) == [tag |-> "Panic", val |-> msg]

\* ---------------------------------------------------- the `bw` tool
\* The vault is `bw`'s list of items, each in the wire format of
\* `bw list items`.  An id is a natural number standing for a UUID.

NoOutput == [kind |-> "none"]

Garbage == [kind |-> "garbage"]

HasUri(j, url) == \E i \in 1..Len(j.login.uris) : j.login.uris[i].uri = JStr(url)

Matching(v, url) == {i \in 1..Len(v) : HasUri(v[i], url)}

RECURSIVE Pick(_, _, _)
\* The items of v at the indices S from i on, in v's order.
Pick(v, S, i) ==
    IF i > Len(v) THEN <<>>
    ELSE (IF i \in S THEN <<v[i]>> ELSE <<>>) \o Pick(v, S, i + 1)

\* `bw list items --url U`: the items whose URI is U and, the tool's
\* filter matching more than equality, any of the others.
Listings(v, url) ==
    { Pick(v, Matching(v, url) \cup S, 1) : S \in SUBSET (1..Len(v) \ Matching(v, url)) }

ItemIds(v) == {v[i].id[2] : i \in 1..Len(v)}

FreshId(v) == CHOOSE n \in 1..(Len(v) + 1) : n \notin ItemIds(v) /\ \A m \in 1..(n - 1) : m \in ItemIds(v)

\* `bw encode`: base64 of stdin.
BwEncode(data) == [kind |-> "b64", val |-> data]

BwDecode(enc) == enc.val

BwCreate(v, enc) ==
    LET req == BwDecode(enc)
    IN  Append(v, [id |-> JStr(FreshId(v)), type |-> req.type, name |-> req.name,
                   login |-> req.login])

BwEdit(v, id, enc) ==
    LET req == BwDecode(enc)
    IN  [i \in 1..Len(v) |->
            IF v[i].id = JStr(id)
            THEN [id |-> JStr(id), type |-> req.type, name |-> req.name, login |-> req.login]
            ELSE v[i]]

BwDelete(v, id) == Pick(v, {i \in 1..Len(v) : v[i].id # JStr(id)}, 1)

\* ----------------------------------------------------- commands
\* A spawned process: the executable, its argument vector, how it ended
\* ("ok", "spawn": could not be started, "exit": non-zero status; a probe
\* of get_cmd_name ends "ok", "notfound" or "error") and its stdout.

Ran(cmd, out, stdout) ==
    [exe |-> cmd.exe, argv |-> cmd.argv, out |-> out,
     stdout |-> IF out = "ok" THEN stdout ELSE NoOutput]

RunOutcomes == {"ok", "spawn", "exit"}

ProbeOutcomes == {"ok", "notfound", "error"}

\* The subcommand words of a command built by make_cmd.
SubArgs(c) ==
    IF Len(c.argv) >= 3 /\ c.argv[1] = "--nointeraction" /\ c.argv[3] = "--session"
    THEN SubSeq(c.argv, 5, Len(c.argv))
    ELSE IF Len(c.argv) >= 2 /\ c.argv[1] = "--nointeraction"
    THEN SubSeq(c.argv, 3, Len(c.argv))
    ELSE c.argv

IsSub(c, w) == Len(SubArgs(c)) >= 1 /\ SubArgs(c)[1] = w

IsSub2(c, w1, w2) == Len(SubArgs(c)) >= 2 /\ SubArgs(c)[1] = w1 /\ SubArgs(c)[2] = w2

IsProbe(c) == c.argv = <<>>

IsLogin(c) == IsSub(c, "login")

IsSync(c) == IsSub(c, "sync")

IsList(c) == IsSub2(c, "list", "items")

IsEncode(c) == IsSub(c, "encode")

IsCreate(c) == IsSub2(c, "create", "item")

IsEdit(c) == IsSub2(c, "edit", "item")

IsDelete(c) == IsSub2(c, "delete", "item")

IsMutating(c) == IsCreate(c) \/ IsEdit(c) \/ IsDelete(c)

\* What a command that ended "ok" did to the vault.
ToolEffect(v, c) ==
    IF c.out # "ok" THEN v
    ELSE IF IsCreate(c) THEN BwCreate(v, SubArgs(c)[3])
    ELSE IF IsEdit(c) THEN BwEdit(v, SubArgs(c)[3], SubArgs(c)[4])
    ELSE IF IsDelete(c) THEN BwDelete(v, SubArgs(c)[3])
    ELSE v

\* Whether the tool can end the command "ok" on vault v.
ToolAccepts(v, c) ==
    IF IsCreate(c) THEN Len(v) < MaxItems
    ELSE IF IsEdit(c) \/ IsDelete(c) THEN SubArgs(c)[3] \in ItemIds(v)
    ELSE TRUE

\* ------------------------------------------------ BitwardenVault
\* Each operation returns [cmds, res]: the processes it spawned, in
\* order, and its result.  What the spawned processes answer (how each
\* ends, what it prints) is an input of the operation.

DashArgs == {"--email", "--sync", "--bogus"}

RECURSIVE ParseArgs(_, _, _)
\* The loop of BitwardenVault::new over the arguments.
ParseArgs(args, email_address, auto_sync) ==
    IF args = <<>> THEN Ok([email_address |-> email_address, auto_sync |-> auto_sync])
    ELSE IF Head(args) = "--email"
    THEN IF Len(args) < 2 THEN Err("--email needs an arg")
         ELSE ParseArgs(SubSeq(args, 3, Len(args)), Some(args[2]), auto_sync)
    ELSE IF Head(args) = "--sync" THEN ParseArgs(Tail(args), email_address, TRUE)
    ELSE IF Head(args) \in DashArgs THEN Err("unknown option")
    ELSE Err("too many arguments")

\* command_exists: spawn the bare command; true, false or a panic.
command_exists(command, out) == Ran([exe |-> command, argv |-> <<>>], out, NoOutput)

\* get_cmd_name on target_os, probes answering bw and bwcmd.
get_cmd_name(target_os, bw, bwcmd) ==
    LET p1 == command_exists("bw", bw)
        p2 == command_exists("bw.cmd", bwcmd)
    IN  IF bw = "ok" THEN [cmds |-> <<p1>>, res |-> Ok("bw")]
        ELSE IF bw = "error" THEN [cmds |-> <<p1>>, res |-> Panic("spawn error")]
        ELSE IF target_os = "windows"
        THEN IF bwcmd = "ok" THEN [cmds |-> <<p1, p2>>, res |-> Ok("bw.cmd")]
             ELSE IF bwcmd = "error" THEN [cmds |-> <<p1, p2>>, res |-> Panic("spawn error")]
             ELSE [cmds |-> <<p1, p2>>, res |-> Panic("Could not find Bitwarden CLI")]
        ELSE [cmds |-> <<p1>>, res |-> Panic("Could not find Bitwarden CLI")]

\* BitwardenVault::new: an Error for bad arguments before any probe.
new(args, target_os, bw, bwcmd) ==
    LET parsed == ParseArgs(args, None, FALSE)
        name == get_cmd_name(target_os, bw, bwcmd)
    IN  IF parsed.tag # "Ok" THEN [cmds |-> <<>>, res |-> parsed]
        ELSE IF name.res.tag # "Ok" THEN name
        ELSE [cmds |-> name.cmds,
              res |-> Ok([email_address |-> parsed.val.email_address,
                          cmd_name |-> name.res.val,
                          auto_sync |-> parsed.val.auto_sync])]

RECURSIVE Find(_, _, _)
\* buffer.find(c): the first index from i on holding c, if any.
Find(buffer, c, i) ==
    IF i > Len(buffer) THEN None
    ELSE IF buffer[i] = c THEN Some(i)
    ELSE Find(buffer, c, i + 1)

\* The whole of stdout taken for the session token.
FirstLine_Whole(buffer) == buffer

\* The session token signin keeps of the process's stdout.
FirstLine(buffer) ==
    LET end == Find(buffer, "\n", 1)
    IN  IF end # None THEN SubSeq(buffer, 1, end[1] - 1) ELSE buffer

\* signin that trusts the environment without looking at it.
signin_NoLogin(op, bw_session, out, stdout) == [cmds |-> <<>>, res |-> Ok(None)]

\* signin that logs in whatever the environment holds.
signin_AlwaysLogin(op, bw_session, out, stdout) ==
    LET cmd == [exe |-> op.cmd_name, argv |-> <<"login", "--raw">>]
        c == Ran(cmd, out, [kind |-> "text", val |-> stdout])
    IN  IF out # "ok" THEN [cmds |-> <<c>>, res |-> Err("failed to run bw login")]
        ELSE [cmds |-> <<c>>, res |-> Ok(Some(FirstLine(stdout)))]

signin(op, bw_session, out, stdout) ==
    IF bw_session THEN [cmds |-> <<>>, res |-> Ok(None)]
    ELSE LET cmd == [exe |-> op.cmd_name,
                     argv |-> <<"login", "--raw">> \o
                              (IF op.email_address # None THEN <<op.email_address[1]>> ELSE <<>>)]
             c == Ran(cmd, out, [kind |-> "text", val |-> stdout])
         IN  IF out = "spawn" THEN [cmds |-> <<c>>, res |-> Err("failed to spawn bw")]
             ELSE IF out # "ok" THEN [cmds |-> <<c>>, res |-> Err("failed to run bw login")]
             ELSE [cmds |-> <<c>>, res |-> Ok(Some(FirstLine(stdout)))]

\* make_cmd that leaves the session to the environment.
make_cmd_NoSession(op, session, args) ==
    [exe |-> op.cmd_name, argv |-> <<"--nointeraction", "--cleanexit">> \o args]

make_cmd(op, session, args) ==
    [exe |-> op.cmd_name,
     argv |-> <<"--nointeraction", "--cleanexit">> \o
              (IF session # None THEN <<"--session", session[1]>> ELSE <<>>) \o args]

\* run_cmd on a process that has run: its stdout or an Error.
run_cmd(c) ==
    IF c.out = "spawn" THEN Err("failed to spawn bw")
    ELSE IF c.out # "ok" THEN Err("bw command exit error")
    ELSE Ok(c.stdout)

sync(op, session, out) ==
    IF ~op.auto_sync THEN [cmds |-> <<>>, res |-> Ok(None)]
    ELSE LET c == Ran(make_cmd(op, session, <<"sync">>), out, NoOutput)
             r == run_cmd(c)
         IN  [cmds |-> <<c>>, res |-> IF r.tag = "Ok" THEN Ok(None) ELSE r]

\* The items search keeps of the parsed listing.
MatchesUrl(item, index_url) ==
    \E i \in 1..Len(item.login.uris) : item.login.uris[i].uri = index_url

\* The filter left to the tool: every listed item is kept.
FilterItems_TrustTool(items, index_url) == items

\* The filter comparing nothing: no listed item is kept.
FilterItems_KeepNone(items, index_url) == <<>>

FilterItems(items, index_url) ==
    Pick(items, {i \in 1..Len(items) : MatchesUrl(items[i], index_url)}, 1)

\* search that settles for the first of several matches.
search_PickFirst(op, session, index_url, syncOut, listOut, stdout) ==
    LET s == sync(op, session, syncOut)
        c == Ran(make_cmd(op, session, <<"list", "items", "--url", index_url>>), listOut, stdout)
        buffer == run_cmd(c)
        parsed == ParseListOutput(buffer.val)
        items == FilterItems(parsed[1], index_url)
        cmds == s.cmds \o <<c>>
    IN  IF s.res.tag # "Ok" THEN s
        ELSE IF buffer.tag # "Ok" THEN [cmds |-> cmds, res |-> buffer]
        ELSE IF parsed = None
        THEN [cmds |-> cmds, res |-> Err("failed to deserialize JSON from Bitwarden list")]
        ELSE IF items = <<>> THEN [cmds |-> cmds, res |-> Ok(None)]
        ELSE [cmds |-> cmds, res |-> Ok(Some(Head(items)))]

\* search that takes a listing it cannot parse, or could not get, for an
\* empty one.
search_Lenient(op, session, index_url, syncOut, listOut, stdout) ==
    LET s == sync(op, session, syncOut)
        c == Ran(make_cmd(op, session, <<"list", "items", "--url", index_url>>), listOut, stdout)
        buffer == run_cmd(c)
        parsed == ParseListOutput(buffer.val)
        items == FilterItems(parsed[1], index_url)
        cmds == s.cmds \o <<c>>
    IN  IF s.res.tag # "Ok" THEN s
        ELSE IF buffer.tag # "Ok" \/ parsed = None \/ items = <<>> THEN [cmds |-> cmds, res |-> Ok(None)]
        ELSE IF Tail(items) # <<>>
        THEN [cmds |-> cmds, res |-> Err("too many Bitwarden logins match registry")]
        ELSE [cmds |-> cmds, res |-> Ok(Some(Head(items)))]

\* search that settles for the newest, the last listed, of several matches.
search_PickNewest(op, session, index_url, syncOut, listOut, stdout) ==
    LET s == sync(op, session, syncOut)
        c == Ran(make_cmd(op, session, <<"list", "items", "--url", index_url>>), listOut, stdout)
        buffer == run_cmd(c)
        parsed == ParseListOutput(buffer.val)
        items == FilterItems(parsed[1], index_url)
        cmds == s.cmds \o <<c>>
    IN  IF s.res.tag # "Ok" THEN s
        ELSE IF buffer.tag # "Ok" THEN [cmds |-> cmds, res |-> buffer]
        ELSE IF parsed = None
        THEN [cmds |-> cmds, res |-> Err("failed to deserialize JSON from Bitwarden list")]
        ELSE IF items = <<>> THEN [cmds |-> cmds, res |-> Ok(None)]
        ELSE [cmds |-> cmds, res |-> Ok(Some(items[Len(items)]))]

search(op, session, index_url, syncOut, listOut, stdout) ==
    LET s == sync(op, session, syncOut)
        c == Ran(make_cmd(op, session, <<"list", "items", "--url", index_url>>), listOut, stdout)
        buffer == run_cmd(c)
        parsed == ParseListOutput(buffer.val)
        items == FilterItems(parsed[1], index_url)
        cmds == s.cmds \o <<c>>
    IN  IF s.res.tag # "Ok" THEN s
        ELSE IF buffer.tag # "Ok" THEN [cmds |-> cmds, res |-> buffer]
        ELSE IF parsed = None
        THEN [cmds |-> cmds, res |-> Err("failed to deserialize JSON from Bitwarden list")]
        ELSE IF items = <<>> THEN [cmds |-> cmds, res |-> Ok(None)]
        ELSE IF Tail(items) # <<>>
        THEN [cmds |-> cmds, res |-> Err("too many Bitwarden logins match registry")]
        ELSE [cmds |-> cmds, res |-> Ok(Some(Head(items)))]

\* encode: the tool's stdout for the data on its stdin.
encode(op, session, data, out) ==
    LET c == Ran(make_cmd(op, session, <<"encode">>), out, BwEncode(data))
    IN  [cmds |-> <<c>>, res |-> run_cmd(c)]

\* The sync ahead of the primary command.
Primary_SyncFirst(op, session, enc, args, out, syncOut) ==
    LET c == Ran(make_cmd(op, session, args), out, NoOutput)
        r == run_cmd(c)
        s == sync(op, session, syncOut)
    IN  IF enc.res.tag # "Ok" THEN enc
        ELSE IF s.res.tag # "Ok" THEN [cmds |-> enc.cmds \o s.cmds, res |-> s.res]
        ELSE [cmds |-> enc.cmds \o s.cmds \o <<c>>, res |-> IF r.tag = "Ok" THEN Ok(None) ELSE r]

\* The trailing sync's failure kept from the caller.
Primary_QuietSync(op, session, enc, args, out, syncOut) ==
    LET c == Ran(make_cmd(op, session, args), out, NoOutput)
        r == run_cmd(c)
        s == sync(op, session, syncOut)
    IN  IF enc.res.tag # "Ok" THEN enc
        ELSE IF r.tag # "Ok" THEN [cmds |-> enc.cmds \o <<c>>, res |-> r]
        ELSE [cmds |-> enc.cmds \o <<c>> \o s.cmds, res |-> Ok(None)]

\* A primary command built from an encoded payload, then the sync.
Primary(op, session, enc, args, out, syncOut) ==
    LET c == Ran(make_cmd(op, session, args), out, NoOutput)
        r == run_cmd(c)
        s == sync(op, session, syncOut)
    IN  IF enc.res.tag # "Ok" THEN enc
        ELSE IF r.tag # "Ok" THEN [cmds |-> enc.cmds \o <<c>>, res |-> r]
        ELSE [cmds |-> enc.cmds \o <<c>> \o s.cmds, res |-> s.res]

\* The request built anew, as create builds its own, instead of cloned.
ModifyRequest_Rebuilt(item, token, name) ==
    [ id |-> item.id, type |-> item.type,
      name |-> IF name # None THEN name[1] ELSE item.name,
      login |-> [username |-> None, password |-> token, uris |-> item.login.uris] ]

ModifyRequest(item, token, name) ==
    LET withPassword == [item EXCEPT !.login.password = token]
    IN  IF name # None THEN [withPassword EXCEPT !.name = name[1]] ELSE withPassword

modify(op, session, item, token, name, encOut, out, syncOut) ==
    LET request == ModifyRequest(item, token, name)
        data == ListItemToJson(request)
        enc == encode(op, session, data, encOut)
    IN  Primary(op, session, enc, <<"edit", "item", item.id, enc.cmds[1].stdout>>, out, syncOut)

\* Url::parse(index_url) and Url::host: Ok(Some(host)), Ok(None), Err.
UrlParseHost(index_url) ==
    IF index_url = UrlBad THEN Err("relative URL without a base")
    ELSE IF index_url = UrlFile THEN Ok(None)
    ELSE Ok(Some(<<"example.com">>))

LoginType == 1

MatchHost == 1

\* The name create gives the entry, or the panic of unwrap.
CreateName(index_url, name) ==
    LET parsed == UrlParseHost(index_url)
        prefix == <<"Cargo registry token for ">>
    IN  IF name # None THEN Ok(prefix \o name[1])
        ELSE IF parsed.tag # "Ok" THEN Ok(prefix \o <<"<unknown>">>)
        ELSE IF parsed.val = None THEN Panic("called Option::unwrap() on a None value")
        ELSE Ok(prefix \o parsed.val[1])

\* The request without the match rule of its URI.
CreateRequest_NoMatch(name, index_url, token) ==
    [ name |-> name,
      type |-> LoginType,
      login |-> [ password |-> token,
                  username |-> None,
                  uris |-> <<[uri |-> index_url, match |-> None]>> ] ]

CreateRequest(name, index_url, token) ==
    [ name |-> name,
      type |-> LoginType,
      login |-> [ password |-> token,
                  username |-> None,
                  uris |-> <<[uri |-> index_url, match |-> Some(MatchHost)]>> ] ]

create(op, session, index_url, token, name, encOut, out, syncOut) ==
    LET n == CreateName(index_url, name)
        request == CreateRequest(n.val, index_url, token)
        data == CreateRequestToJson(request)
        enc == encode(op, session, data, encOut)
    IN  IF n.tag # "Ok" THEN [cmds |-> <<>>, res |-> n]
        ELSE Primary(op, session, enc, <<"create", "item", enc.cmds[1].stdout>>, out, syncOut)

delete(op, session, id, out, syncOut) ==
    Primary(op, session, [cmds |-> <<>>, res |-> Ok(None)], <<"delete", "item", id>>, out, syncOut)

\* ------------------------------------------------------ the state

Procs == {"p1", "p2"}

VARIABLES
    host,       \* the machine: the provider's arguments, the OS, what is installed
    vault,      \* the items of the Bitwarden vault, in the wire format
    proc,       \* per credential process: where it is in perform, and its locals
    enc         \* one run of encode seen byte by byte: parent, child and their pipes

vars == <<host, vault, proc, enc>>

\* No run of encode is looked at byte by byte.
EncIdle ==
    [ pc |-> "idle", payload |-> 0, unwritten |-> 0, stdin |-> 0, stdin_open |-> FALSE,
      child |-> "none", got |-> 0, unprinted |-> 0, stdout |-> 0, status |-> "none",
      buffer |-> 0, result |-> "none" ]

Idle ==
    [ pc |-> "idle", action |-> "none", registry |-> [index_url |-> "", name |-> None],
      op |-> None, session |-> None, item |-> None, token |-> None,
      trace |-> <<>>, result |-> None, before |-> <<>> ]

\* An item of the vault as `bw list items` prints it.
WireItem(id, name, username, password, uris) ==
    [ id |-> JStr(id), type |-> JNum(LoginType), name |-> JStr(name),
      login |-> [ username |-> username, password |-> JStr(password), uris |-> uris ] ]

WireUri(match, uri) == [match |-> match, uri |-> JStr(uri)]

\* The vaults a run starts from: empty; an item of the registry's host
\* only; one entry with UrlHttps among its URIs; two entries for UrlHttps.
InitVaults ==
    { <<>>,
      << WireItem(1, <<"web login">>, JStr("me"), "hunter2", <<WireUri(JNull, UrlOther)>>) >>,
      << WireItem(1, <<"crates">>, JStr("me"), "tok-000",
                  <<WireUri(JNull, UrlOther), WireUri(JNum(0), UrlHttps)>>) >>,
      << WireItem(1, <<"first">>, JNull, "tok-000", <<WireUri(JNum(MatchHost), UrlHttps)>>),
         WireItem(2, <<"second">>, JNull, "tok-123", <<WireUri(JNum(MatchHost), UrlHttps)>>) >> }

\* The machines of Spec: `bw` installed, auto-sync off or on, BW_SESSION
\* unset or set.
Host(args, target_os, bw, bwcmd, bw_session) ==
    [args |-> args, target_os |-> target_os, bw |-> bw, bwcmd |-> bwcmd,
     bw_session |-> bw_session]

Hosts ==
    { Host(args, "linux", "ok", "notfound", bw_session) :
        args \in {<<>>, <<"--sync">>}, bw_session \in BOOLEAN }

Init ==
    /\ host \in Hosts
    /\ vault \in InitVaults
    /\ proc = [p \in Procs |-> Idle]
    /\ enc = EncIdle

\* -------------------------------------------------------- helpers

RECURSIVE Effects(_, _, _)
\* The vault after the commands cmds[i..] ran on v.
Effects(v, cmds, i) ==
    IF i > Len(cmds) THEN v ELSE Effects(ToolEffect(v, cmds[i]), cmds, i + 1)

\* The tool can answer the commands the way they ended.
Feasible(v, cmds) ==
    \A i \in 1..Len(cmds) : cmds[i].out = "ok" => ToolAccepts(v, cmds[i])

\* The step of process p that spawned cmds and ended r: the locals in
\* upd, then either the next place in perform or the end of the call.
Advance(p, cmds, r, next, upd) ==
    LET q == [upd EXCEPT !.trace = proc[p].trace \o cmds]
    IN  proc' = [proc EXCEPT ![p] =
                    IF r.tag = "Ok" THEN [q EXCEPT !.pc = next]
                    ELSE [q EXCEPT !.pc = "done", !.result = r]]

\* --------------------------------------------------------- perform

\* perform that looks at the action before it builds the BitwardenVault.
Perform_MatchFirst(p, action, registry) ==
    /\ proc[p].pc = "idle"
    /\ LET n == IF action = "Other" THEN [cmds |-> <<>>, res |-> Err("OperationNotSupported")]
                ELSE new(host.args, host.target_os, host.bw, host.bwcmd)
           start == [Idle EXCEPT !.action = action, !.registry = registry,
                                 !.op = IF n.res.tag = "Ok" THEN Some(n.res.val) ELSE None,
                                 !.before = vault]
       IN  Advance(p, n.cmds, n.res, "signin", start)
    /\ UNCHANGED <<host, vault>>

\* perform up to the match on the action: BitwardenVault::new, and the
\* fallback arm for the actions that are not supported.
Perform(p, action, registry) ==
    /\ proc[p].pc = "idle"
    /\ LET n == new(host.args, host.target_os, host.bw, host.bwcmd)
           r == IF n.res.tag = "Ok" /\ action = "Other" THEN Err("OperationNotSupported")
                ELSE n.res
           start == [Idle EXCEPT !.action = action, !.registry = registry,
                                 !.op = IF n.res.tag = "Ok" THEN Some(n.res.val) ELSE None,
                                 !.before = vault]
       IN  Advance(p, n.cmds, r, "signin", start)
    /\ UNCHANGED <<host, vault>>

Signin(p, out, stdout) ==
    /\ proc[p].pc = "signin"
    /\ LET s == signin(proc[p].op[1], host.bw_session, out, stdout)
       IN  Advance(p, s.cmds, s.res, "search",
                   IF s.res.tag = "Ok" THEN [proc[p] EXCEPT !.session = s.res.val]
                   ELSE proc[p])
    /\ UNCHANGED <<host, vault>>

Search(p, syncOut, listOut, stdout) ==
    /\ proc[p].pc = "search"
    /\ LET s == search(proc[p].op[1], proc[p].session, proc[p].registry.index_url,
                       syncOut, listOut, stdout)
       IN  Advance(p, s.cmds, s.res, "found",
                   IF s.res.tag = "Ok" THEN [proc[p] EXCEPT !.item = s.res.val]
                   ELSE proc[p])
    /\ UNCHANGED <<host, vault>>

\* A Get that stores an empty entry for a registry it has none for.
Get_Creating(p) ==
    /\ proc[p].pc = "found"
    /\ proc[p].action = "Get"
    /\ LET m == IF proc[p].item # None THEN [cmds |-> <<>>, res |-> Ok(None)]
                ELSE create(proc[p].op[1], proc[p].session, proc[p].registry.index_url, "",
                            proc[p].registry.name, "ok", "ok", "ok")
           r == IF proc[p].item # None
                THEN Ok([response |-> "Get", token |-> proc[p].item[1].login.password,
                         cache |-> "Session", operation_independent |-> TRUE])
                ELSE Err("NotFound")
       IN  /\ Feasible(vault, m.cmds)
           /\ proc' = [proc EXCEPT ![p].trace = @ \o m.cmds, ![p].pc = "done", ![p].result = r]
           /\ vault' = Effects(vault, m.cmds, 1)
    /\ UNCHANGED host

\* Action::Get after the search.
Get(p) ==
    /\ proc[p].pc = "found"
    /\ proc[p].action = "Get"
    /\ LET r == IF proc[p].item # None
                THEN Ok([response |-> "Get", token |-> proc[p].item[1].login.password,
                         cache |-> "Session", operation_independent |-> TRUE])
                ELSE Err("NotFound")
       IN  proc' = [proc EXCEPT ![p].pc = "done", ![p].result = r]
    /\ UNCHANGED <<host, vault>>

\* Action::Login after the search: read_token, then modify or create.
Login(p, token, encOut, out, syncOut) ==
    /\ proc[p].pc = "found"
    /\ proc[p].action = "Login"
    /\ LET op == proc[p].op[1]
           reg == proc[p].registry
           m == IF token.tag # "Ok" THEN [cmds |-> <<>>, res |-> token]
                ELSE IF proc[p].item # None
                THEN modify(op, proc[p].session, proc[p].item[1], token.val, reg.name,
                            encOut, out, syncOut)
                ELSE create(op, proc[p].session, reg.index_url, token.val, reg.name,
                            encOut, out, syncOut)
           r == IF m.res.tag = "Ok" THEN Ok([response |-> "Login"]) ELSE m.res
           q == [proc[p] EXCEPT !.token = IF token.tag = "Ok" THEN Some(token.val) ELSE None,
                                !.trace = @ \o m.cmds, !.pc = "done", !.result = r]
       IN  /\ Feasible(vault, m.cmds)
           /\ proc' = [proc EXCEPT ![p] = q]
           /\ vault' = Effects(vault, m.cmds, 1)
    /\ UNCHANGED host

\* A Logout that takes a missing entry for a removed one.
Logout_Lenient(p, out, syncOut) ==
    /\ proc[p].pc = "found"
    /\ proc[p].action = "Logout"
    /\ LET d == IF proc[p].item # None
                THEN delete(proc[p].op[1], proc[p].session, proc[p].item[1].id, out, syncOut)
                ELSE [cmds |-> <<>>, res |-> Ok(None)]
           r == IF d.res.tag = "Ok" THEN Ok([response |-> "Logout"]) ELSE d.res
       IN  /\ Feasible(vault, d.cmds)
           /\ proc' = [proc EXCEPT ![p].trace = @ \o d.cmds, ![p].pc = "done", ![p].result = r]
           /\ vault' = Effects(vault, d.cmds, 1)
    /\ UNCHANGED host

\* Action::Logout after the search.
Logout(p, out, syncOut) ==
    /\ proc[p].pc = "found"
    /\ proc[p].action = "Logout"
    /\ LET d == IF proc[p].item # None
                THEN delete(proc[p].op[1], proc[p].session, proc[p].item[1].id, out, syncOut)
                ELSE [cmds |-> <<>>, res |-> Err("NotFound")]
           r == IF d.res.tag = "Ok" THEN Ok([response |-> "Logout"]) ELSE d.res
       IN  /\ Feasible(vault, d.cmds)
           /\ proc' = [proc EXCEPT ![p].trace = @ \o d.cmds, ![p].pc = "done", ![p].result = r]
           /\ vault' = Effects(vault, d.cmds, 1)
    /\ UNCHANGED host

\* The credential process exits; the next action is a new process.
Exit(p) ==
    /\ proc[p].pc = "done"
    /\ proc' = [proc EXCEPT ![p] = Idle]
    /\ UNCHANGED <<host, vault>>

\* What `bw login --raw` prints: the session key, with or without more lines.
LoginOutputs == { <<"S", "1">>, <<"S", "1", "\n", "x", "\n">> }

\* What cargo_credential::read_token returns.
TokenReads == {Ok(t) : t \in Tokens} \cup {Err("failed to read token")}

ListOutputs(p) ==
    {[kind |-> "json", val |-> l] : l \in Listings(vault, proc[p].registry.index_url)}
        \cup {Garbage}

Step(p) ==
    \/ \E action \in Actions, registry \in Registries : Perform(p, action, registry)
    \/ \E out \in RunOutcomes, stdout \in LoginOutputs : Signin(p, out, stdout)
    \/ \E syncOut \in RunOutcomes, listOut \in RunOutcomes, stdout \in ListOutputs(p) :
            Search(p, syncOut, listOut, stdout)
    \/ Get(p)
    \/ \E token \in TokenReads, encOut \in RunOutcomes, out \in RunOutcomes,
          syncOut \in RunOutcomes :
            Login(p, token, encOut, out, syncOut)
    \/ \E out \in RunOutcomes, syncOut \in RunOutcomes : Logout(p, out, syncOut)
    \/ Exit(p)

\* Actions one after the other: every action is a process of its own, and
\* the next starts when the one before it has exited.
Next == Step("p1") /\ UNCHANGED enc

Spec == Init /\ [][Next]_vars

\* ------------------------------------------------- other machines
\* The machines of SpecStartup: arguments with an e-mail address, and
\* arguments BitwardenVault::new rejects; Windows, with its second name for
\* the executable; and each way the probes of get_cmd_name can end.
StartupHosts ==
    { Host(args, "linux", "ok", "notfound", FALSE) :
        args \in {<<"--email", Email>>, <<"--email", Email, "--sync">>, <<"--email">>,
                  <<"--bogus">>, <<"extra">>} }
    \cup { Host(<<>>, "linux", bw, "notfound", FALSE) : bw \in {"notfound", "error"} }
    \cup { Host(<<"--bogus">>, "linux", "notfound", "notfound", FALSE) }
    \cup { Host(<<>>, "windows", bw, bwcmd, FALSE) :
             bw \in {"notfound", "error"}, bwcmd \in ProbeOutcomes }
    \cup { Host(<<>>, "windows", "ok", "notfound", TRUE) }

\* They start with an empty vault.
StartupVaults == {<<>>}

InitStartup ==
    /\ host \in StartupHosts
    /\ vault \in StartupVaults
    /\ proc = [p \in Procs |-> Idle]
    /\ enc = EncIdle

SpecStartup == InitStartup /\ [][Next]_vars

\* ---------------------------------------------- overlapping actions
\* Two credential processes at once, on one registry, on a machine with
\* BW_SESSION set; `list items` and `encode` succeed, a create, edit or
\* delete may fail.  Each step of perform is one step of a process; the
\* steps of the two interleave freely.
RaceRegistry == [index_url |-> UrlHttps, name |-> None]

RaceToken(p) == IF p = "p1" THEN "tok-123" ELSE "tok-456"

InitRace ==
    /\ host = Host(<<>>, "linux", "ok", "notfound", TRUE)
    /\ vault = <<>>
    /\ proc = [p \in Procs |-> Idle]
    /\ enc = EncIdle

RaceStep(p) ==
    \/ \E action \in {"Get", "Login", "Logout"} : Perform(p, action, RaceRegistry)
    \/ Signin(p, "ok", <<"S", "1">>)
    \/ \E stdout \in ListOutputs(p) \ {Garbage} : Search(p, "ok", "ok", stdout)
    \/ Get(p)
    \/ \E out \in {"ok", "exit"} : Login(p, Ok(RaceToken(p)), "ok", out, "ok")
    \/ \E out \in {"ok", "exit"} : Logout(p, out, "ok")
    \/ Exit(p)

NextRace == (\E p \in Procs : RaceStep(p)) /\ UNCHANGED enc

SpecRace == InitRace /\ [][NextRace]_vars

\* ------------------------------------------- encode, byte by byte
\* One run of encode: the parent (the credential process) and the child
\* (`bw encode`) joined by two pipes of PipeCapacity bytes.  Only the
\* numbers of bytes matter here.  A write to a full pipe and a read of an
\* empty pipe whose writer is still there block: the step is not enabled.
\* The child is the tool the claim supposes: it reads its stdin to the end,
\* then writes its output, and exits once the pipe has taken all of it.
PipeCapacity == 4

MaxPayload == 6

\* The length of the base64 text of n bytes.
EncodedLen(n) == 4 * ((n + 2) \div 3)

Min(a, b) == IF a < b THEN a ELSE b

InitEncode ==
    /\ host = Host(<<>>, "linux", "ok", "notfound", TRUE)
    /\ vault = <<>>
    /\ proc = [p \in Procs |-> Idle]
    /\ \E n \in 0..MaxPayload : enc = [EncIdle EXCEPT !.pc = "spawn", !.payload = n, !.unwritten = n]

\* cmd.spawn() with stdin and stdout piped.
EncSpawn(out) ==
    /\ enc.pc = "spawn"
    /\ enc' = IF out = "ok"
              THEN [enc EXCEPT !.pc = "write", !.stdin_open = TRUE, !.child = "read"]
              ELSE [enc EXCEPT !.pc = "done", !.result = "failed to spawn bw"]
    /\ UNCHANGED <<host, vault, proc>>

\* child_stdin.write_all(data): as many bytes as the pipe takes at a time.
EncWrite(k) ==
    /\ enc.pc = "write"
    /\ k <= Min(enc.unwritten, PipeCapacity - enc.stdin)
    /\ enc' = [enc EXCEPT !.unwritten = @ - k, !.stdin = @ + k]
    /\ UNCHANGED <<host, vault, proc>>

\* write_all has returned; child.wait() closes the child's stdin and waits.
EncWait ==
    /\ enc.pc = "write"
    /\ enc.unwritten = 0
    /\ enc' = [enc EXCEPT !.pc = "wait", !.stdin_open = FALSE]
    /\ UNCHANGED <<host, vault, proc>>

\* child.wait() returns the status of the child that has exited.
EncReap ==
    /\ enc.pc = "wait"
    /\ enc.child = "exited"
    /\ enc' = [enc EXCEPT !.pc = "read"]
    /\ UNCHANGED <<host, vault, proc>>

\* read_to_string: the bytes that are in the pipe.
EncRead(k) ==
    /\ enc.pc = "read"
    /\ k <= enc.stdout
    /\ enc' = [enc EXCEPT !.stdout = @ - k, !.buffer = @ + k]
    /\ UNCHANGED <<host, vault, proc>>

\* read_to_string reaches the end of the pipe; the status decides the result.
EncReturn ==
    /\ enc.pc = "read"
    /\ enc.stdout = 0
    /\ enc.child = "exited"
    /\ enc' = [enc EXCEPT !.pc = "done",
                          !.result = IF enc.status = "success" THEN "Ok"
                                     ELSE "bw command exit error"]
    /\ UNCHANGED <<host, vault, proc>>

\* The child reads what is in its stdin.
ChildRead(k) ==
    /\ enc.child = "read"
    /\ k <= enc.stdin
    /\ enc' = [enc EXCEPT !.stdin = @ - k, !.got = @ + k]
    /\ UNCHANGED <<host, vault, proc>>

\* The child reaches the end of its stdin, which the parent has closed.
ChildEof ==
    /\ enc.child = "read"
    /\ enc.stdin = 0
    /\ ~enc.stdin_open
    /\ enc' = [enc EXCEPT !.child = "write", !.unprinted = EncodedLen(enc.got)]
    /\ UNCHANGED <<host, vault, proc>>

\* The child writes its output, as many bytes as the pipe takes at a time.
ChildWrite(k) ==
    /\ enc.child = "write"
    /\ k <= Min(enc.unprinted, PipeCapacity - enc.stdout)
    /\ enc' = [enc EXCEPT !.unprinted = @ - k, !.stdout = @ + k]
    /\ UNCHANGED <<host, vault, proc>>

\* The pipe has taken all the output: the child exits.
ChildExit(status) ==
    /\ enc.child = "write"
    /\ enc.unprinted = 0
    /\ enc' = [enc EXCEPT !.child = "exited", !.status = status]
    /\ UNCHANGED <<host, vault, proc>>

NextEncode ==
    \/ \E out \in {"ok", "spawn"} : EncSpawn(out)
    \/ \E k \in 1..PipeCapacity : EncWrite(k)
    \/ EncWait
    \/ EncReap
    \/ \E k \in 1..PipeCapacity : EncRead(k)
    \/ EncReturn
    \/ \E k \in 1..PipeCapacity : ChildRead(k)
    \/ ChildEof
    \/ \E k \in 1..PipeCapacity : ChildWrite(k)
    \/ \E status \in {"success", "failure"} : ChildExit(status)

\* Parent and child are processes of the operating system: each takes the
\* step it can take.
SpecEncode == InitEncode /\ [][NextEncode]_vars /\ WF_vars(NextEncode)

\* ------------------------------------------------------ the claims

Trace(p) == proc[p].trace

Done(p) == proc[p].pc = "done"

Url(p) == proc[p].registry.index_url

\* The indices of a listing, as the tool printed it, whose item has URI u.
Exact(stdout, u) == {k \in 1..Len(stdout.val) : HasUri(stdout.val[k], u)}

\* Entry i of p's trace is a `list items` that ended well and printed items.
Listed(p, i) ==
    /\ IsList(Trace(p)[i])
    /\ Trace(p)[i].out = "ok"
    /\ Trace(p)[i].stdout.kind = "json"

\* C1: within one action the signin step (BW_SESSION in the environment,
\* or a `login --raw` that ended well) comes before the first `sync` or
\* `list items`, and a `list items` that ended well, parsed, and held at
\* most one item for the registry comes before any `encode`, `create item`,
\* `edit item` or `delete item`.
C1_Ordering ==
    \A p \in Procs : \A i \in 1..Len(Trace(p)) :
        LET c == Trace(p)[i]
        IN  /\ (IsSync(c) \/ IsList(c) \/ IsEncode(c) \/ IsMutating(c)) =>
                   \/ host.bw_session
                   \/ \E j \in 1..(i - 1) : IsLogin(Trace(p)[j]) /\ Trace(p)[j].out = "ok"
            /\ (IsEncode(c) \/ IsMutating(c)) =>
                   \E j \in 1..(i - 1) :
                       /\ Listed(p, j)
                       /\ Cardinality(Exact(Trace(p)[j].stdout, Url(p))) <= 1
                       /\ \A k \in 1..(j - 1) : ~IsEncode(Trace(p)[k]) /\ ~IsMutating(Trace(p)[k])

\* A Store that signed in with `login --raw`, searched, and created.
C1_Witness ==
    \E p \in Procs :
        /\ Done(p)
        /\ proc[p].result.tag = "Ok"
        /\ \E i, j, k \in 1..Len(Trace(p)) :
              i < j /\ j < k /\ IsLogin(Trace(p)[i]) /\ IsList(Trace(p)[j]) /\ IsCreate(Trace(p)[k])

\* p's action returned the Error msg, or the response resp.
Failed(p, msg) == proc[p].result.tag = "Err" /\ proc[p].result.val = msg

Responded(p, resp) == proc[p].result.tag = "Ok" /\ proc[p].result.val.response = resp

\* The token the vault holds for registry URL u, seen as a map: "absent",
\* the password of the one item whose URI is u, or "ambiguous".
Abs(v, u) ==
    IF Matching(v, u) = {} THEN "absent"
    ELSE IF Cardinality(Matching(v, u)) > 1 THEN "ambiguous"
    ELSE v[CHOOSE i \in Matching(v, u) : TRUE].login.password[2]

\* Every vault command of p's action ended well and printed what it should,
\* and the token was read.
CleanRun(p) ==
    /\ Done(p)
    /\ \A i \in 1..Len(Trace(p)) : Trace(p)[i].out = "ok" /\ Trace(p)[i].stdout # Garbage
    /\ ~Failed(p, "failed to read token")

\* What a map of registry URL to token answers, and is left as, by p's action.
ActsAsMap(p) ==
    LET u == Url(p)
        was == Abs(proc[p].before, u)
    IN  /\ \A w \in IndexUrls \ {u} : Abs(vault, w) = Abs(proc[p].before, w)
        /\ proc[p].action = "Get" =>
              /\ Abs(vault, u) = was
              /\ was = "absent" => Failed(p, "NotFound")
              /\ was # "absent" => Responded(p, "Get") /\ proc[p].result.val.token = was
        /\ proc[p].action = "Login" =>
              /\ proc[p].token # None
              /\ Abs(vault, u) = proc[p].token[1]
              /\ Responded(p, "Login")
        /\ proc[p].action = "Logout" =>
              /\ Abs(vault, u) = "absent"
              /\ was = "absent" => Failed(p, "NotFound")
              /\ was # "absent" => Responded(p, "Logout")

\* C2: run one after the other, with every vault command succeeding, on a
\* vault holding at most one entry per registry URL, Fetch, Store and Remove
\* act on the vault as get, put and delete act on a map from registry URL to
\* token: Fetch returns the stored token or NotFound, Store leaves its token
\* stored, Remove leaves none, and no other registry's token changes.
C2_MapOfRegistryToToken ==
    \A p \in Procs :
        (/\ CleanRun(p)
         /\ proc[p].action \in {"Get", "Login", "Logout"}
         /\ Abs(proc[p].before, Url(p)) # "ambiguous")
        => ActsAsMap(p)

\* The same, for the actions that did not abort in a panic.
C2_MapUnlessPanic ==
    \A p \in Procs :
        (/\ CleanRun(p)
         /\ proc[p].action \in {"Get", "Login", "Logout"}
         /\ Abs(proc[p].before, Url(p)) # "ambiguous"
         /\ proc[p].result.tag # "Panic")
        => ActsAsMap(p)

\* C3: a vault that holds at most one item whose URI is U still holds at
\* most one after any step of any action run one after the other, whether
\* the vault commands succeed or fail.
C3_AtMostOneEntry ==
    [][\A u \in IndexUrls :
          Cardinality(Matching(vault, u)) <= 1 => Cardinality(Matching(vault', u)) <= 1]_vars

\* A Store has added the one entry of its registry to a vault that held
\* another registry's entry.
C3_Witness ==
    \E p \in Procs :
        /\ Done(p)
        /\ proc[p].action = "Login"
        /\ Matching(proc[p].before, Url(p)) = {}
        /\ Cardinality(Matching(vault, Url(p))) = 1
        /\ \E w \in IndexUrls \ {Url(p)} : Cardinality(Matching(vault, w)) = 1

\* C4: when `list items` printed two or more items whose URI is the index
\* URL, search failed with the ambiguous-entry error: the action ended with
\* that error, kept none of the items, issued no `encode`, `create item`,
\* `edit item` or `delete item`, and left the vault as it was.
C4_AmbiguousIsAnError ==
    \A p \in Procs : \A i \in 1..Len(Trace(p)) :
        (Listed(p, i) /\ Cardinality(Exact(Trace(p)[i].stdout, Url(p))) >= 2) =>
            /\ Done(p)
            /\ Failed(p, "too many Bitwarden logins match registry")
            /\ proc[p].item = None
            /\ i = Len(Trace(p))
            /\ \A k \in 1..Len(Trace(p)) : ~IsEncode(Trace(p)[k]) /\ ~IsMutating(Trace(p)[k])
            /\ vault = proc[p].before

\* A Store met two entries for its registry.
C4_Witness ==
    \E p \in Procs :
        /\ Done(p)
        /\ proc[p].action = "Login"
        /\ \E i \in 1..Len(Trace(p)) :
              Listed(p, i) /\ Cardinality(Exact(Trace(p)[i].stdout, Url(p))) >= 2

\* search returned to perform: the action is past it, and did not end in
\* one of search's own errors.
SearchReturned(p) ==
    \/ proc[p].pc = "found"
    \/ /\ Done(p)
       /\ ~Failed(p, "too many Bitwarden logins match registry")
       /\ ~Failed(p, "failed to deserialize JSON from Bitwarden list")

\* C5: whatever items `list items --url U` printed beside them, search
\* returned the one item whose URI is U when there is exactly one, and
\* "not found" when there is none.
C5_SearchKeepsTheExactMatch ==
    \A p \in Procs : \A i \in 1..Len(Trace(p)) :
        Listed(p, i) =>
            LET out == Trace(p)[i].stdout
                m == Exact(out, Url(p))
            IN  /\ Cardinality(m) = 1 =>
                      /\ SearchReturned(p)
                      /\ proc[p].item = Some(ListItemFromJson(out.val[CHOOSE k \in m : TRUE]))
                /\ m = {} =>
                      /\ SearchReturned(p)
                      /\ proc[p].item = None
                      /\ (Done(p) /\ proc[p].action \in {"Get", "Logout"}) => Failed(p, "NotFound")

\* The listing held an item of another URI before the one of the registry.
C5_Witness ==
    \E p \in Procs : \E i \in 1..Len(Trace(p)) :
        /\ Listed(p, i)
        /\ Len(Trace(p)[i].stdout.val) = 2
        /\ Exact(Trace(p)[i].stdout, Url(p)) = {2}
        /\ proc[p].item # None

\* C6: a Fetch finds and never creates: in every Fetch, however it ends,
\* no `encode`, `create item`, `edit item` or `delete item` is issued and
\* the vault's items are what they were when the action began.
C6_FetchOnlyFinds ==
    \A p \in Procs :
        proc[p].action = "Get" =>
            /\ \A i \in 1..Len(Trace(p)) : ~IsEncode(Trace(p)[i]) /\ ~IsMutating(Trace(p)[i])
            /\ vault = proc[p].before

\* A Fetch found no entry in a vault that holds items.
C6_Witness ==
    \E p \in Procs :
        /\ Done(p)
        /\ proc[p].action = "Get"
        /\ Failed(p, "NotFound")
        /\ vault # <<>>

\* The items of v that are not in w, by id.
NewItems(v, w) == {i \in 1..Len(v) : v[i].id[2] \notin ItemIds(w)}

\* p's action created: it issued a `create item` that ended well.
Created(p) == \E i \in 1..Len(Trace(p)) : IsCreate(Trace(p)[i]) /\ Trace(p)[i].out = "ok"

\* What C7 says of a create: the token was read, exactly one item was
\* added to the vault, of login type, its password the token, its URIs the
\* one entry {uri = U, match = host}; and a search(U) that follows, whatever
\* else the tool lists, returns that item with the login.uris and password
\* of the request.
CreatedThenFound(p) ==
            /\ proc[p].token # None
            /\ Cardinality({i \in 1..Len(Trace(p)) : IsCreate(Trace(p)[i])}) = 1
            /\ Len(vault) = Len(proc[p].before) + 1
            /\ \A i \in 1..Len(proc[p].before) : vault[i] = proc[p].before[i]
            /\ Cardinality(NewItems(vault, proc[p].before)) = 1
            /\ LET added == vault[Len(vault)]
                   request == CreateRequest(<<>>, Url(p), proc[p].token[1])
               IN  /\ added.type = JNum(1)
                   /\ added.login.password = JStr(proc[p].token[1])
                   /\ added.login.uris = <<[match |-> JNum(1), uri |-> JStr(Url(p))]>>
                   /\ \A l \in Listings(vault, Url(p)) :
                         LET s == search(proc[p].op[1], proc[p].session, Url(p), "ok", "ok",
                                         [kind |-> "json", val |-> l])
                         IN  /\ s.res.tag = "Ok"
                             /\ s.res.val # None
                             /\ s.res.val[1].id = added.id[2]
                             /\ s.res.val[1].login.uris = request.login.uris
                             /\ s.res.val[1].login.password = request.login.password

\* The search of p's action returned "not found".
NotFound(p) ==
    /\ proc[p].pc \in {"found", "done"}
    /\ \E i \in 1..Len(Trace(p)) : Listed(p, i) /\ Exact(Trace(p)[i].stdout, Url(p)) = {}

\* C7: a Store whose search found no entry, with the token read and every
\* vault command succeeding, has issued a `create item` and created the
\* item CreatedThenFound describes.
C7_StoreCreates ==
    \A p \in Procs :
        (CleanRun(p) /\ proc[p].action = "Login" /\ NotFound(p)) =>
            Created(p) /\ CreatedThenFound(p)

\* C7, for the Stores that reached `create item`: one whose search found no
\* entry and whose `create item` ended well created the item
\* CreatedThenFound describes.
C7_CreateThenSearch ==
    \A p \in Procs :
        (Done(p) /\ proc[p].action = "Login" /\ proc[p].item = None /\ Created(p)) =>
            CreatedThenFound(p)

\* A Store created the entry of its registry in a vault that held an item.
C7_Witness ==
    \E p \in Procs :
        /\ Done(p)
        /\ proc[p].action = "Login"
        /\ proc[p].item = None
        /\ Created(p)
        /\ Responded(p, "Login")
        /\ Len(vault) = 2

\* The entries of p's trace that are commands of kind Is.
Issued(p, Is(_)) == {i \in 1..Len(Trace(p)) : Is(Trace(p)[i])}

IssuedOk(p, Is(_)) == {i \in Issued(p, Is) : Trace(p)[i].out = "ok"}

\* C8: a Store whose search found one entry modifies it in place: it issues
\* no `create item` or `delete item` and at most one `edit item`, addressed
\* to the found item's id and carrying the found item with only
\* login.password, and name when the registry came with one, replaced; the
\* vault keeps its items and their ids; every
\* other item is untouched; and the found item, once the edit ended well,
\* is the item it was but for login.password, now the token, and, only when
\* the registry came with a name, name.  With the token read and every
\* vault command succeeding the edit is issued and the Store succeeds.
C8_ModifyInPlace ==
    \A p \in Procs :
        (proc[p].action = "Login" /\ proc[p].item # None) =>
            LET id == proc[p].item[1].id
                was == proc[p].before
                name == proc[p].registry.name
            IN  /\ Issued(p, IsCreate) = {} /\ Issued(p, IsDelete) = {}
                /\ Cardinality(Issued(p, IsEdit)) <= 1
                /\ \A i \in Issued(p, IsEdit) :
                      /\ SubArgs(Trace(p)[i])[3] = id
                      /\ BwDecode(SubArgs(Trace(p)[i])[4]) =
                            ListItemToJson([proc[p].item[1] EXCEPT
                                               !.login.password = proc[p].token[1],
                                               !.name = IF name # None THEN name[1] ELSE @])
                /\ Len(vault) = Len(was)
                /\ \A i \in 1..Len(was) :
                      /\ vault[i].id = was[i].id
                      /\ was[i].id # JStr(id) => vault[i] = was[i]
                      /\ (was[i].id = JStr(id) /\ IssuedOk(p, IsEdit) = {}) => vault[i] = was[i]
                      /\ (was[i].id = JStr(id) /\ IssuedOk(p, IsEdit) # {}) =>
                            vault[i] = [was[i] EXCEPT
                                           !.login.password = JStr(proc[p].token[1]),
                                           !.name = IF name # None THEN JStr(name[1]) ELSE @]
                /\ CleanRun(p) => IssuedOk(p, IsEdit) # {} /\ Responded(p, "Login")

\* A Store without a registry name put a new token into an entry that has
\* a username and two URIs.
C8_Witness ==
    \E p \in Procs :
        /\ Done(p)
        /\ proc[p].action = "Login"
        /\ proc[p].item # None
        /\ proc[p].registry.name = None
        /\ proc[p].item[1].login.username # None
        /\ Len(proc[p].item[1].login.uris) = 2
        /\ IssuedOk(p, IsEdit) # {}
        /\ vault # proc[p].before

\* C9: a Remove whose search found the one matching item issues no command
\* that changes the vault but `delete item` for that item's id, at most once;
\* once it ended well that item is gone and every other item is as it was,
\* and with every vault command succeeding the Remove returns success.  A
\* Remove whose search found no item returns NotFound, issues no
\* `delete item` and leaves the vault as it was.
C9_Remove ==
    \A p \in Procs :
        proc[p].action = "Logout" =>
            LET was == proc[p].before
            IN  /\ Issued(p, IsCreate) = {} /\ Issued(p, IsEdit) = {} /\ Issued(p, IsEncode) = {}
                /\ proc[p].item # None =>
                      LET id == proc[p].item[1].id
                      IN  /\ Cardinality(Issued(p, IsDelete)) <= 1
                          /\ \A i \in Issued(p, IsDelete) : SubArgs(Trace(p)[i])[3] = id
                          /\ IssuedOk(p, IsDelete) = {} => vault = was
                          /\ IssuedOk(p, IsDelete) # {} =>
                                vault = Pick(was, {k \in 1..Len(was) : was[k].id # JStr(id)}, 1)
                          /\ CleanRun(p) => IssuedOk(p, IsDelete) # {} /\ Responded(p, "Logout")
                /\ proc[p].item = None =>
                      /\ Issued(p, IsDelete) = {}
                      /\ vault = was
                      /\ (Done(p) /\ NotFound(p)) => Failed(p, "NotFound")

\* A Remove deleted its registry's entry from a vault that keeps another item.
C9_Witness ==
    \E p \in Procs :
        /\ Done(p)
        /\ proc[p].action = "Logout"
        /\ Responded(p, "Logout")
        /\ Len(proc[p].before) = 2
        /\ Len(vault) = 1

\* A Remove found nothing to delete.
C9_WitnessNotFound ==
    \E p \in Procs : Done(p) /\ proc[p].action = "Logout" /\ NotFound(p) /\ vault # <<>>

\* C10: a `sync` is issued only when --sync was given at startup, and only
\* in two places: as the first command of search, all that precedes it being
\* the probe and the login, with `list items` next; or right after a
\* `create item`, `edit item` or `delete item` that ended well.  With
\* auto-sync on, `list items` comes right after a sync that ended well; and
\* no sync comes between `encode` and the primary command.
C10_SyncPlaces ==
    \A p \in Procs : \A i \in 1..Len(Trace(p)) :
        LET t == Trace(p)
        IN  /\ IsSync(t[i]) =>
                  /\ proc[p].op # None
                  /\ proc[p].op[1].auto_sync
                  /\ \E k \in 1..Len(host.args) : host.args[k] = "--sync"
                  /\ \/ /\ \A j \in 1..(i - 1) : IsProbe(t[j]) \/ IsLogin(t[j])
                        /\ t[i].out = "ok" => (i < Len(t) /\ IsList(t[i + 1]))
                     \/ /\ i > 1
                        /\ IsMutating(t[i - 1])
                        /\ t[i - 1].out = "ok"
            /\ (IsList(t[i]) /\ proc[p].op[1].auto_sync) =>
                  i > 1 /\ IsSync(t[i - 1]) /\ t[i - 1].out = "ok"
            /\ (IsEncode(t[i]) /\ i < Len(t)) => IsMutating(t[i + 1])

\* With --sync, a Store synced, listed, encoded, created and synced.
C10_Witness ==
    \E p \in Procs :
        /\ Done(p)
        /\ Responded(p, "Login")
        /\ Cardinality(Issued(p, IsSync)) = 2
        /\ Issued(p, IsCreate) # {}

\* The commands of p's trace built by make_cmd: all but the probes of
\* get_cmd_name and the login of signin.
VaultCommands(p) == {i \in 1..Len(Trace(p)) : ~IsProbe(Trace(p)[i]) /\ ~IsLogin(Trace(p)[i])}

\* C11: with BW_SESSION in the environment no action spawns `login --raw`;
\* signin spawns nothing at all, so nothing validates the session; it
\* returns no session token; and every vault command of the action is the
\* two flags followed directly by the subcommand, without `--session`.
C11_TrustsEnvironment ==
    \A p \in Procs :
        host.bw_session =>
            /\ Issued(p, IsLogin) = {}
            /\ proc[p].session = None
            /\ proc[p].pc = "search" => \A i \in 1..Len(Trace(p)) : IsProbe(Trace(p)[i])
            /\ \A i \in VaultCommands(p) :
                  /\ Trace(p)[i].argv[3] # "--session"
                  /\ Trace(p)[i].argv = <<"--nointeraction", "--cleanexit">> \o SubArgs(Trace(p)[i])
                  /\ \/ IsSync(Trace(p)[i]) \/ IsList(Trace(p)[i]) \/ IsEncode(Trace(p)[i])
                     \/ IsMutating(Trace(p)[i])

\* With BW_SESSION set a Store searched, encoded and created.
C11_Witness ==
    \E p \in Procs :
        /\ host.bw_session
        /\ Done(p)
        /\ Responded(p, "Login")
        /\ IssuedOk(p, IsList) # {}
        /\ IssuedOk(p, IsCreate) # {}

\* C12: every vault command of an action (sync, list items, encode,
\* create item, edit item, delete item) is the resolved executable with
\* --nointeraction --cleanexit first; when signin's `login --raw` ended well
\* and printed S on its first line, each carries `--session S` next; and
\* all the commands of the action run the same executable, the one probed,
\* with the same session arguments.
C12_FlagsAndSession ==
    \A p \in Procs : \A i \in VaultCommands(p) :
        LET t == Trace(p)
            c == t[i]
        IN  /\ IsSync(c) \/ IsList(c) \/ IsEncode(c) \/ IsMutating(c)
            /\ c.argv[1] = "--nointeraction"
            /\ c.argv[2] = "--cleanexit"
            /\ c.exe = proc[p].op[1].cmd_name
            /\ \A j \in 1..Len(t) :
                  /\ (IsProbe(t[j]) /\ t[j].out = "ok") => c.exe = t[j].exe
                  /\ IsLogin(t[j]) =>
                        /\ j < i
                        /\ t[j].out = "ok"
                        /\ c.exe = t[j].exe
                        /\ c.argv[3] = "--session"
                        /\ c.argv[4] = FirstLine(t[j].stdout.val)
                        /\ proc[p].session = Some(c.argv[4])
            /\ \A j \in VaultCommands(p) :
                  /\ c.exe = t[j].exe
                  /\ (c.argv[3] = "--session") = (t[j].argv[3] = "--session")
                  /\ c.argv[3] = "--session" => c.argv[4] = t[j].argv[4]

\* After `login --raw` a Store issued list, encode and create with the session.
C12_Witness ==
    \E p \in Procs :
        /\ Done(p)
        /\ Responded(p, "Login")
        /\ Issued(p, IsLogin) # {}
        /\ IssuedOk(p, IsEncode) # {}
        /\ IssuedOk(p, IsCreate) # {}
        /\ \A i \in VaultCommands(p) : Trace(p)[i].argv[4] = <<"S", "1">>

\* A spawned command that failed: it could not be started, it exited
\* non-zero, or it was a `list items` whose output is no list of items.
FailedCommand(c) ==
    /\ ~IsProbe(c)
    /\ \/ c.out # "ok"
       \/ IsList(c) /\ c.stdout = Garbage

\* C13: the first command of an action that fails to spawn, exits non-zero
\* or prints what does not parse is the last command of the action: the
\* action is over, with an Error that is not NotFound and names the failing
\* step; when it was the `list items`, no `encode` or `create item` was
\* issued.
C13_FirstFailureAborts ==
    \A p \in Procs : \A i \in 1..Len(Trace(p)) :
        LET c == Trace(p)[i]
        IN  FailedCommand(c) =>
                /\ i = Len(Trace(p))
                /\ Done(p)
                /\ proc[p].result.tag = "Err"
                /\ ~Failed(p, "NotFound")
                /\ c.out = "spawn" => Failed(p, "failed to spawn bw")
                /\ (c.out = "exit" /\ IsLogin(c)) => Failed(p, "failed to run bw login")
                /\ (c.out = "exit" /\ ~IsLogin(c)) => Failed(p, "bw command exit error")
                /\ (c.out = "ok") => Failed(p, "failed to deserialize JSON from Bitwarden list")
                /\ IsList(c) => Issued(p, IsEncode) = {} /\ Issued(p, IsMutating) = {}

\* A Store whose listing did not parse ended with the parse error.
C13_Witness ==
    \E p \in Procs :
        /\ Done(p)
        /\ proc[p].action = "Login"
        /\ proc[p].before = <<>>
        /\ \E i \in 1..Len(Trace(p)) :
              IsList(Trace(p)[i]) /\ Trace(p)[i].out = "ok" /\ Trace(p)[i].stdout = Garbage

\* The arguments BitwardenVault::new accepts.
ArgsAccepted ==
    host.args \in {<<>>, <<"--sync">>, <<"--email", Email>>, <<"--email", Email, "--sync">>}

\* A probe of get_cmd_name found the executable.
Resolved ==
    \/ host.bw = "ok"
    \/ host.bw = "notfound" /\ host.target_os = "windows" /\ host.bwcmd = "ok"

\* p's call of perform ended in a panic.
Panicked(p) == proc[p].result.tag = "Panic"

\* C14, as claimed: an action other than Fetch, Store and Remove spawns no
\* process at all and returns OperationNotSupported, on every machine.
C14_NoStepsForUnsupported ==
    \A p \in Procs :
        (Done(p) /\ proc[p].action = "Other") =>
            Trace(p) = <<>> /\ Failed(p, "OperationNotSupported")

\* C14, amended: an action other than Fetch, Store and Remove ends within
\* BitwardenVault::new or right after it.  Arguments new rejects give that
\* Error with nothing spawned; otherwise the executable is probed by
\* spawning it, and the result is OperationNotSupported when a probe found
\* it and a panic when none did.  No login and no vault command is issued
\* and the vault is as it was.
C14_UnsupportedAfterStartup ==
    \A p \in Procs :
        (proc[p].pc # "idle" /\ proc[p].action = "Other") =>
            /\ Done(p)
            /\ \A i \in 1..Len(Trace(p)) : IsProbe(Trace(p)[i])
            /\ vault = proc[p].before
            /\ ~ArgsAccepted => Trace(p) = <<>> /\ proc[p].result.tag = "Err"
                                /\ ~Failed(p, "OperationNotSupported")
            /\ ArgsAccepted => Trace(p) # <<>> /\ Trace(p)[1].exe = "bw"
            /\ (ArgsAccepted /\ Resolved) => Failed(p, "OperationNotSupported")
            /\ (ArgsAccepted /\ ~Resolved) => Panicked(p)

\* An unsupported action was refused on a machine with the executable, after
\* the probe spawned it.
C14_Witness ==
    \E p \in Procs :
        /\ Done(p)
        /\ proc[p].action = "Other"
        /\ Failed(p, "OperationNotSupported")
        /\ Len(Trace(p)) = 2
        /\ Trace(p)[2].exe = "bw.cmd"

\* s is the text of buffer before its first newline, or buffer itself when
\* it has none.
IsFirstLineOf(s, buffer) ==
    /\ Len(s) <= Len(buffer)
    /\ \A k \in 1..Len(s) : s[k] = buffer[k] /\ s[k] # "\n"
    /\ Len(s) < Len(buffer) => buffer[Len(s) + 1] = "\n"

\* The e-mail address the provider was configured with, if any.
ConfiguredEmail ==
    IF \E k \in 1..(Len(host.args) - 1) : host.args[k] = "--email" THEN <<Email>> ELSE <<>>

\* C15: without BW_SESSION every action that gets past startup spawns
\* `login --raw` once, before any vault command: the resolved executable
\* with exactly the arguments login, --raw and the configured e-mail address
\* if there is one.  When it does not end well the action is over with the
\* signin error and no further command; when it exits zero the session
\* token is the first line of its stdout.
C15_LoginRaw ==
    \A p \in Procs :
        LET t == Trace(p)
        IN  /\ (~host.bw_session /\ proc[p].op # None /\ proc[p].action # "Other"
                    /\ proc[p].pc \notin {"idle", "signin"}) =>
                   Cardinality(Issued(p, IsLogin)) = 1
            /\ \A i \in Issued(p, IsLogin) :
                  /\ ~host.bw_session
                  /\ t[i].exe = proc[p].op[1].cmd_name
                  /\ t[i].argv = <<"login", "--raw">> \o ConfiguredEmail
                  /\ \A j \in 1..(i - 1) : IsProbe(t[j])
                  /\ t[i].out # "ok" =>
                        /\ i = Len(t)
                        /\ Done(p)
                        /\ proc[p].session = None
                        /\ Failed(p, IF t[i].out = "exit" THEN "failed to run bw login"
                                     ELSE "failed to spawn bw")
                  /\ t[i].out = "ok" =>
                        /\ proc[p].session # None
                        /\ IsFirstLineOf(proc[p].session[1], t[i].stdout.val)

\* A login with the e-mail address printed two lines, and the Store went on
\* with the first as its session.
C15_Witness ==
    \E p \in Procs :
        /\ Done(p)
        /\ Responded(p, "Login")
        /\ \E i \in Issued(p, IsLogin) :
              /\ Trace(p)[i].argv = <<"login", "--raw", Email>>
              /\ Len(Trace(p)[i].stdout.val) = 5
        /\ proc[p].session = Some(<<"S", "1">>)

\* No name of the executable is found on this machine.
NotInstalled ==
    /\ host.bw = "notfound"
    /\ host.target_os = "windows" => host.bwcmd = "notfound"

\* C16: on a machine where no name of the executable is found, every action
\* ends at startup, before any login or vault command, with an Error
\* returned to the caller; and bw.cmd is probed only after the probe of bw
\* ended with "not found".
C16_ToolNotFoundIsAnError ==
    \A p \in Procs :
        /\ (proc[p].pc # "idle" /\ ArgsAccepted /\ NotInstalled) =>
              /\ Done(p)
              /\ \A i \in 1..Len(Trace(p)) : IsProbe(Trace(p)[i])
              /\ proc[p].result.tag = "Err"
        /\ \A i \in 1..Len(Trace(p)) :
              Trace(p)[i].exe = "bw.cmd" /\ IsProbe(Trace(p)[i]) =>
                  /\ i = 2
                  /\ Trace(p)[1].exe = "bw"
                  /\ Trace(p)[1].out = "notfound"

\* What the code does on that machine: every action ends at startup, before
\* any login or vault command, in a panic; the probing is as C16 says.
C16_PanicsAtStartup ==
    \A p \in Procs :
        /\ (proc[p].pc # "idle" /\ ArgsAccepted /\ NotInstalled) =>
              /\ Done(p)
              /\ \A i \in 1..Len(Trace(p)) : IsProbe(Trace(p)[i])
              /\ Panicked(p)
        /\ \A i \in 1..Len(Trace(p)) :
              Trace(p)[i].exe = "bw.cmd" /\ IsProbe(Trace(p)[i]) =>
                  /\ i = 2
                  /\ Trace(p)[1].exe = "bw"
                  /\ Trace(p)[1].out = "notfound"
                  /\ host.target_os = "windows"

\* The name of the item a `create item` command carries.
CreatedName(c) == BwDecode(SubArgs(c)[3]).name

\* C17: the create of a Store never aborts, and the entry it creates is
\* named by the registry's name when it has one, else "Cargo registry token
\* for " followed by the host of the index URL, or by "<unknown>" for an
\* index URL that does not parse.
C17_NameIsTotal ==
    \A p \in Procs :
        (Done(p) /\ proc[p].action = "Login" /\ NotFound(p) /\ proc[p].token # None) =>
            /\ ~Panicked(p)
            /\ \A i \in Issued(p, IsCreate) :
                  LET reg == proc[p].registry
                  IN  /\ reg.name # None => CreatedName(Trace(p)[i]) = JStr(reg.name[1])
                      /\ (reg.name = None /\ reg.index_url = UrlHttps) =>
                            CreatedName(Trace(p)[i]) =
                                JStr(<<"Cargo registry token for ", "example.com">>)
                      /\ (reg.name = None /\ reg.index_url = UrlBad) =>
                            CreatedName(Trace(p)[i]) =
                                JStr(<<"Cargo registry token for ", "<unknown>">>)

\* What the code does: the name is always "Cargo registry token for "
\* followed by the registry's name, the host, or "<unknown>"; and for an
\* index URL that parses without a host, given without a name, create
\* panics before any command.
C17_NameAsBuilt ==
    \A p \in Procs :
        (Done(p) /\ proc[p].action = "Login" /\ NotFound(p) /\ proc[p].token # None) =>
            LET reg == proc[p].registry
            IN  /\ Panicked(p) <=> (reg.name = None /\ reg.index_url = UrlFile)
                /\ Panicked(p) => Issued(p, IsEncode) = {} /\ Issued(p, IsCreate) = {}
                /\ \A i \in Issued(p, IsCreate) :
                      CreatedName(Trace(p)[i]) =
                          JStr(<<"Cargo registry token for ">> \o
                               (IF reg.name # None THEN reg.name[1]
                                ELSE IF reg.index_url = UrlBad THEN <<"<unknown>">>
                                ELSE <<"example.com">>))

\* The last command of p's action was a sync that failed, right after a
\* create, edit or delete that ended well.
TrailingSyncFailed(p) ==
    LET t == Trace(p)
        n == Len(t)
    IN  /\ n >= 2
        /\ IsSync(t[n]) /\ t[n].out # "ok"
        /\ IsMutating(t[n - 1]) /\ t[n - 1].out = "ok"

\* C19: a Store or Remove issues at most one of `create item`, `edit item`
\* and `delete item`.  An action that ended without success has left the
\* vault as it was, unless its last command was the sync, failing, that
\* follows a create, edit or delete that ended well; and an action that
\* ended so, which takes auto-sync, reports an Error although the create,
\* edit or delete has been applied to the vault.
C19_OneMutationAndErrorsLeaveTheVault ==
    \A p \in Procs :
        /\ Cardinality(Issued(p, IsMutating)) <= 1
        /\ (Done(p) /\ proc[p].result.tag # "Ok" /\ ~TrailingSyncFailed(p)) =>
              vault = proc[p].before
        /\ TrailingSyncFailed(p) =>
              /\ Done(p)
              /\ proc[p].op[1].auto_sync
              /\ proc[p].action \in {"Login", "Logout"}
              /\ proc[p].result.tag = "Err"
              /\ vault = ToolEffect(proc[p].before, Trace(p)[Len(Trace(p)) - 1])

\* A Store created its entry and reported the failure of the sync after it.
C19_Witness ==
    \E p \in Procs :
        /\ Done(p)
        /\ proc[p].action = "Login"
        /\ TrailingSyncFailed(p)
        /\ Issued(p, IsCreate) # {}
        /\ Len(vault) = Len(proc[p].before) + 1

\* A Remove failed at `delete item` and the vault is as it was.
C19_WitnessUnchanged ==
    \E p \in Procs :
        /\ Done(p)
        /\ proc[p].action = "Logout"
        /\ proc[p].result.tag = "Err"
        /\ \E i \in Issued(p, IsDelete) : Trace(p)[i].out # "ok"
        /\ vault = proc[p].before /\ vault # <<>>

\* The items of the vault that have the race's URL among their URIs.
RaceMatches(v) == Matching(v, RaceRegistry.index_url)

\* Both processes are at the end of a Store that created an entry.
BothCreated ==
    \A p \in Procs :
        Done(p) /\ Responded(p, "Login") /\ IssuedOk(p, IsCreate) # {}

\* C18: a Store whose search found no entry for U does not look again
\* before it creates: its step after the search issues `create item`
\* whatever the vault holds by then, an entry created meanwhile by the
\* other process included, and when that ends well the vault has one more
\* item matching U and the Store reports success.  And every search that runs
\* while the vault holds two items matching U ends its action with the
\* ambiguous-entry error and the vault untouched, whatever the action.
C18_CreateRace ==
    [][\A p \in Procs :
          /\ (proc[p].pc = "found" /\ proc[p].action = "Login" /\ proc[p].item = None
                /\ proc'[p].pc = "done") =>
                \E i \in 1..Len(proc'[p].trace) :
                    /\ IsCreate(proc'[p].trace[i])
                    /\ proc'[p].trace[i].out = "ok" =>
                          /\ proc'[p].result.tag = "Ok"
                          /\ Cardinality(RaceMatches(vault')) =
                                Cardinality(RaceMatches(vault)) + 1
          /\ (Cardinality(RaceMatches(vault)) >= 2 /\ proc[p].pc = "search"
                /\ proc'[p].pc # "search") =>
                /\ proc'[p].pc = "done"
                /\ proc'[p].result.tag = "Err"
                /\ proc'[p].result.val = "too many Bitwarden logins match registry"
                /\ vault' = vault]_vars

\* Both Stores searched an empty vault, both created, both succeeded, and
\* the vault holds two entries for U.
C18_Witness ==
    /\ BothCreated
    /\ \A p \in Procs : \E i \in 1..Len(Trace(p)) : Listed(p, i) /\ Trace(p)[i].stdout.val = <<>>
    /\ Cardinality(RaceMatches(vault)) = 2

\* After the race a Remove ended with the ambiguous-entry error.
C18_WitnessAfter ==
    \E p \in Procs :
        /\ Done(p)
        /\ proc[p].action = "Logout"
        /\ Failed(p, "too many Bitwarden logins match registry")
        /\ Cardinality(RaceMatches(vault)) = 2

\* C20: every run of encode comes to its end, with the encoded text or an
\* Error, whatever the sizes of the payload and of the output.
C20_EncodeTerminates == <>(enc.pc = "done")

\* A run of encode starts whose output fits the pipe.
StartsWithinCapacity == enc.pc = "spawn" /\ EncodedLen(enc.payload) <= PipeCapacity

\* What the code does: a run whose output fits the pipe comes to its end.
C20_TerminatesWithinCapacity == StartsWithinCapacity ~> (enc.pc = "done")

\* A run that returns Ok returns the whole output; and a run whose output
\* exceeds the pipe never gets past child.wait().
C20_OnlyWithinCapacity ==
    /\ enc.result = "Ok" => enc.buffer = EncodedLen(enc.payload)
    /\ (enc.pc \in {"read", "done"} /\ enc.result # "failed to spawn bw") =>
          EncodedLen(enc.payload) <= PipeCapacity

\* Parent in child.wait(), child in a write to the full pipe: no step left.
C20_Deadlock ==
    /\ enc.pc = "wait"
    /\ enc.child = "write"
    /\ enc.unprinted > 0
    /\ enc.stdout = PipeCapacity

====
